---- MODULE Spec2Model ----
(***************************************************************************)
(* A model of lib/block/blockheader.js: the BlockHeader codec for the      *)
(* legacy (80 byte) and the BitcoinQuark (height / reserved / 32 byte      *)
(* nonce / solution) header layouts, its memoized id, the compact-target   *)
(* decoding, the difficulty ratio and the two validity checks.             *)
(*                                                                         *)
(* JavaScript values are tagged records [t, n, s]: t is the type           *)
(* ("undef", "num", "buf", "str"), n the number, s the bytes of a Buffer   *)
(* (0..255 each) or the hex digits of a string (0..15 each).               *)
(* Arbitrary-precision integers (BN) are little-endian sequences of limbs  *)
(* in base 10000 without leading zero limbs; zero is the empty sequence.   *)
(***************************************************************************)
EXTENDS Integers, Sequences, FiniteSets, TLC

VARIABLES header, result, now, muts

vars == <<header, result, now, muts>>

(***************************************************************************)
(* Module constants of blockheader.js                                      *)
(***************************************************************************)
GENESIS_BITS == 486604799

QUARK_GENESIS_BITS == 528482303

LOCKTIME_THRESHOLD == 500000000

START_OF_HEADER == 8

MAX_TIME_OFFSET == 2 * 60 * 60

(***************************************************************************)
(* JavaScript values                                                       *)
(***************************************************************************)
Undef == [t |-> "undef", n |-> 0, s |-> <<>>]

Num(x) == [t |-> "num", n |-> x, s |-> <<>>]

Buf(b) == [t |-> "buf", n |-> 0, s |-> b]

Str(h) == [t |-> "str", n |-> 0, s |-> h]

IsString(v) == v.t = "str"

\* JavaScript truthiness of a tagged value (!arg is its negation).
Truthy(v) ==
  CASE v.t = "undef" -> FALSE
    [] v.t = "num" -> v.n # 0
    [] v.t = "str" -> Len(v.s) > 0
    [] OTHER -> TRUE

(***************************************************************************)
(* Bytes and hex strings                                                   *)
(***************************************************************************)
\* BufferUtil.reverse: a copy of the bytes in the opposite order.
Reverse(b) == [i \in 1..Len(b) |-> b[Len(b) + 1 - i]]

\* buf.toString('hex'): two hex digits per byte, high digit first.
ToHex(b) ==
  [i \in 1..(2 * Len(b)) |->
     IF i % 2 = 1 THEN b[(i + 1) \div 2] \div 16 ELSE b[i \div 2] % 16]

\* new Buffer(str, 'hex'): one byte per pair of hex digits.
FromHex(h) == [i \in 1..(Len(h) \div 2) |-> 16 * h[2 * i - 1] + h[2 * i]]

\* The 4 bytes writeUInt32LE stores for n.
U32LE(n) ==
  <<n % 256, (n \div 256) % 256, (n \div 65536) % 256, (n \div 16777216) % 256>>

\* readUInt32LE of the 4 bytes starting at index p (1-based).
ReadU32LE(b, p) ==
  b[p] + 256 * b[p + 1] + 65536 * b[p + 2] + 16777216 * b[p + 3]

(***************************************************************************)
(* Arbitrary-precision integers                                            *)
(***************************************************************************)
Base == 10 ^ 4

RECURSIVE BNNorm(_)
BNNorm(a) ==
  IF Len(a) > 0 /\ a[Len(a)] = 0 THEN BNNorm(SubSeq(a, 1, Len(a) - 1)) ELSE a

RECURSIVE BNFromNat(_)
BNFromNat(x) == IF x = 0 THEN <<>> ELSE <<x % Base>> \o BNFromNat(x \div Base)

Limb(a, i) == IF i <= Len(a) THEN a[i] ELSE 0

\* a * m + c for a small multiplier m and carry c.
RECURSIVE BNMulSmallC(_, _, _)
BNMulSmallC(a, m, c) ==
  IF Len(a) = 0 THEN BNFromNat(c)
  ELSE LET v == a[1] * m + c
       IN  <<v % Base>> \o BNMulSmallC(Tail(a), m, v \div Base)

BNMulSmall(a, m) ==
  IF Len(a) = 0 \/ m = 0 THEN <<>> ELSE BNNorm(BNMulSmallC(a, m, 0))

RECURSIVE BNAddC(_, _, _)
BNAddC(a, b, c) ==
  IF Len(a) = 0 /\ Len(b) = 0 THEN BNFromNat(c)
  ELSE LET v == Limb(a, 1) + Limb(b, 1) + c
       IN  <<v % Base>> \o
           BNAddC(IF Len(a) = 0 THEN a ELSE Tail(a),
                  IF Len(b) = 0 THEN b ELSE Tail(b), v \div Base)

BNAdd(a, b) ==
  IF Len(a) = 0 THEN b
  ELSE IF Len(b) = 0 THEN a
  ELSE BNNorm(BNAddC(a, b, 0))

\* cmp: -1, 0 or 1, comparing from the most significant limb.
RECURSIVE BNCmpAt(_, _, _)
BNCmpAt(a, b, i) ==
  IF i = 0 THEN 0
  ELSE IF a[i] > b[i] THEN 1
  ELSE IF a[i] < b[i] THEN -1
  ELSE BNCmpAt(a, b, i - 1)

BNCmp(a, b) ==
  IF Len(a) > Len(b) THEN 1
  ELSE IF Len(a) < Len(b) THEN -1
  ELSE BNCmpAt(a, b, Len(a))

\* a - b for a >= b, with borrow w.
RECURSIVE BNSubB(_, _, _)
BNSubB(a, b, w) ==
  IF Len(a) = 0 THEN <<>>
  ELSE LET v == a[1] - Limb(b, 1) - w
       IN  <<IF v < 0 THEN v + Base ELSE v>> \o
           BNSubB(Tail(a), IF Len(b) = 0 THEN b ELSE Tail(b),
                  IF v < 0 THEN 1 ELSE 0)

BNSub(a, b) == IF Len(b) = 0 THEN a ELSE BNNorm(BNSubB(a, b, 0))

\* a * b, one limb of b at a time.
RECURSIVE BNMul(_, _)
BNMul(a, b) ==
  IF Len(b) = 0 \/ Len(a) = 0 THEN <<>>
  ELSE BNAdd(BNMulSmall(a, b[1]),
             LET rest == BNMul(a, Tail(b))
             IN  IF Len(rest) = 0 THEN <<>> ELSE <<0>> \o rest)

\* The largest digit d in lo..hi with b * d <= r.
RECURSIVE QuotDigit(_, _, _, _)
QuotDigit(r, b, lo, hi) ==
  IF lo = hi THEN lo
  ELSE LET mid == (lo + hi + 1) \div 2
       IN  IF BNCmp(BNMulSmall(b, mid), r) <= 0
           THEN QuotDigit(r, b, mid, hi)
           ELSE QuotDigit(r, b, lo, mid - 1)

\* One step of long division: the quotient q and remainder r of the limbs
\* above, extended by the next limb of the dividend.
DivLimb(q, r, limb, b) ==
  LET r0 == BNNorm(<<limb>> \o r)
  IN  IF BNCmp(r0, b) < 0 THEN [q |-> BNNorm(<<0>> \o q), r |-> r0]
      ELSE LET d == QuotDigit(r0, b, 0, Base - 1)
           IN  [q |-> <<d>> \o q, r |-> BNSub(r0, BNMulSmall(b, d))]

\* Quotient and remainder of a by b (b > 0): long division, one limb of a
\* at a time from the most significant.
RECURSIVE BNDivMod(_, _)
BNDivMod(a, b) ==
  IF Len(a) = 0 THEN [q |-> <<>>, r |-> <<>>]
  ELSE LET h == BNDivMod(Tail(a), b)
       IN  IF Len(h.q) = 0 /\ Len(h.r) = 0 /\ a[1] = 0 THEN h
           ELSE DivLimb(h.q, h.r, a[1], b)

BNDiv(a, b) == BNDivMod(a, b).q

\* a doubled k times: the doublings of the first half of k, then the rest
\* (the test on the half-way value has it computed before the second half).
RECURSIVE BNShl(_, _)
BNShl(a, k) ==
  IF k <= 0 \/ Len(a) = 0 THEN a
  ELSE IF k = 1 THEN BNMulSmall(a, 2)
  ELSE LET half == BNShl(a, k \div 2)
       IN  IF Len(half) = 0 THEN <<>> ELSE BNShl(half, k - (k \div 2))

\* The value of the hex digits lo..hi of h, most significant first.
RECURSIVE BNFromHexRange(_, _, _)
BNFromHexRange(h, lo, hi) ==
  IF lo > hi THEN <<>>
  ELSE IF lo = hi THEN BNFromNat(h[lo])
  ELSE LET mid == (lo + hi) \div 2
           high == BNFromHexRange(h, lo, mid)
           low == BNFromHexRange(h, mid + 1, hi)
       IN  IF Len(high) = 0 THEN low
           ELSE BNAdd(BNShl(high, 4 * (hi - mid)), low)

\* new BN(str, 'hex')
BNFromHex(h) == BNFromHexRange(h, 1, Len(h))

\* The decimal digits of x < Base, padded with zeros to 4 digits.
Digits4(x) == <<x \div 1000, (x \div 100) % 10, (x \div 10) % 10, x % 10>>

RECURSIVE StripZeros(_)
StripZeros(d) ==
  IF Len(d) > 1 /\ d[1] = 0 THEN StripZeros(Tail(d)) ELSE d

RECURSIVE BNDigits(_)
BNDigits(a) == IF Len(a) = 0 THEN <<>> ELSE BNDigits(Tail(a)) \o Digits4(a[1])

\* toString(10): the decimal digits, most significant first; "0" for zero.
BNToString10(a) == IF Len(a) = 0 THEN <<0>> ELSE StripZeros(BNDigits(a))

(***************************************************************************)
(* Collaborators: the byte writer and reader, and the double hash          *)
(***************************************************************************)
\* What a call that throws leaves in place of its value.
Throw == [t |-> "throw", n |-> 0, s |-> <<>>]

Threw(v) == v.t = "throw"

\* BufferWriter.write: accepts a Buffer only.
Write(v) == IF v.t = "buf" THEN v ELSE Throw

\* BufferWriter.writeUInt32LE: for a value that is not a number Node either
\* throws or stores 0, depending on its version (lenient = stores 0).
WriteUInt32LE(v, lenient) ==
  IF v.t = "num" THEN Buf(U32LE(v.n))
  ELSE IF lenient THEN Buf(<<0, 0, 0, 0>>) ELSE Throw

\* BufferWriter.writeVarintNum: 1, 3 or 5 bytes by the size of n.
VarintBytes(n) ==
  IF n < 253 THEN <<n>>
  ELSE IF n < 65536 THEN <<253, n % 256, n \div 256>>
  ELSE <<254>> \o U32LE(n)

\* The .length of a value: bytes of a Buffer, characters of a string.
Length(v) == IF v.t \in {"buf", "str"} THEN Num(Len(v.s)) ELSE Throw

WriteVarintNum(v) == IF v.t = "num" THEN Buf(VarintBytes(v.n)) ELSE Throw

\* BufferWriter.concat: the chunks joined, or a throw when a chunk is bad.
RECURSIVE Flatten(_)
Flatten(chunks) ==
  IF Len(chunks) = 0 THEN <<>> ELSE Head(chunks).s \o Flatten(Tail(chunks))

Concat(chunks) ==
  IF \E i \in 1..Len(chunks) : chunks[i].t # "buf" THEN Throw
  ELSE Buf(Flatten(chunks))

\* The reader has n more bytes at (0-based) position pos.
ReaderHas(b, pos, n) == pos + n <= Len(b)

\* BufferReader.read(n) at pos, as a 1-based slice.
Read(b, pos, n) == SubSeq(b, pos + 1, pos + n)

\* BufferReader.readVarintNum at pos: [ok, value, size].
ReadVarintNum(b, pos) ==
  IF ~ReaderHas(b, pos, 1) THEN [ok |-> FALSE, value |-> 0, size |-> 0]
  ELSE LET first == b[pos + 1]
       IN  IF first < 253 THEN [ok |-> TRUE, value |-> first, size |-> 1]
           ELSE IF first = 253
           THEN IF ReaderHas(b, pos, 3)
                THEN [ok |-> TRUE, value |-> b[pos + 2] + 256 * b[pos + 3],
                      size |-> 3]
                ELSE [ok |-> FALSE, value |-> 0, size |-> 0]
           ELSE IF first = 254 /\ ReaderHas(b, pos, 5)
           THEN [ok |-> TRUE, value |-> ReadU32LE(b, pos + 2), size |-> 5]
           ELSE [ok |-> FALSE, value |-> 0, size |-> 0]

\* A position-weighted checksum of the bytes lo..hi, the seed of the
\* stand-in hash.
RECURSIVE Checksum(_, _, _)
Checksum(b, lo, hi) ==
  IF lo > hi THEN 0
  ELSE IF lo = hi THEN (b[lo] * ((lo % 7) + 1)) % 256
  ELSE LET mid == (lo + hi) \div 2
       IN  (Checksum(b, lo, mid) + Checksum(b, mid + 1, hi)) % 256

\* Hash.sha256sha256: a deterministic 32 byte digest of the bytes. The real
\* digest is not computable here; this stand-in keeps what the header code
\* relies on: the same bytes give the same digest, other bytes usually not.
Sha256d(b) ==
  LET c == Checksum(b, 1, Len(b)) IN [i \in 1..32 |-> (c * i) % 256]

(***************************************************************************)
(* BlockHeader                                                             *)
(***************************************************************************)
_isBitcoinQuarkHeightOnly(arg) ==
  IF ~Truthy(arg) THEN FALSE ELSE TRUE

\* BlockHeader._isBitcoinQuark: does the time-or-height value denote a height.
_isBitcoinQuark(arg) ==
  IF ~Truthy(arg) THEN FALSE
  ELSE IF arg.n > LOCKTIME_THRESHOLD THEN FALSE
  ELSE TRUE

\* The info object of a thrown decode.
NoInfo == [t |-> "throw"]

\* An info object with the given fields.
Info(hash, version, prevHash, merkleRoot, height, reserved, time, bits, nonce, solution) ==
  [t |-> "obj", hash |-> hash, version |-> version, prevHash |-> prevHash,
   merkleRoot |-> merkleRoot, height |-> height, reserved |-> reserved,
   time |-> time, timestamp |-> time, bits |-> bits, nonce |-> nonce,
   solution |-> solution]

\* BlockHeader._fromObject: hex strings become bytes (reversed, but for
\* solution); the nonce stored is data.nonce, not the converted one.
_fromObject(data) ==
  LET isBitcoinQuark == _isBitcoinQuark(data.height)
      rev(v) == IF IsString(v) THEN Buf(Reverse(FromHex(v.s))) ELSE v
  IN  Info(data.hash, data.version, rev(data.prevHash), rev(data.merkleRoot),
           data.height,
           IF isBitcoinQuark THEN rev(data.reserved) ELSE data.reserved,
           data.time, data.bits,
           data.nonce,
           IF isBitcoinQuark /\ IsString(data.solution)
           THEN Buf(FromHex(data.solution.s)) ELSE data.solution)

_fromBufferReaderTimeFirst(b, pos) ==
  IF ~ReaderHas(b, pos, 80) THEN NoInfo
  ELSE Info(Undef, Num(ReadU32LE(b, pos + 1)), Buf(Read(b, pos + 4, 32)),
            Buf(Read(b, pos + 36, 32)), Undef, Undef,
            Num(ReadU32LE(b, pos + 69)), Num(ReadU32LE(b, pos + 73)),
            Num(ReadU32LE(b, pos + 77)), Undef)

\* BlockHeader._fromBufferReader on the bytes b from (0-based) position pos.
_fromBufferReader(b, pos) ==
  IF ~ReaderHas(b, pos, 72) THEN NoInfo
  ELSE
    LET version == Num(ReadU32LE(b, pos + 1))
        prevHash == Buf(Read(b, pos + 4, 32))
        merkleRoot == Buf(Read(b, pos + 36, 32))
        timeOrHeight == Num(ReadU32LE(b, pos + 69))
    IN  IF _isBitcoinQuark(timeOrHeight)
        THEN
          IF ~ReaderHas(b, pos + 72, 28 + 4 + 4 + 32) THEN NoInfo
          ELSE
            LET lenSolution == ReadVarintNum(b, pos + 140)
            IN  IF ~lenSolution.ok
                   \/ ~ReaderHas(b, pos + 140 + lenSolution.size,
                                 lenSolution.value)
                THEN NoInfo
                ELSE Info(Undef, version, prevHash, merkleRoot, timeOrHeight,
                          Buf(Read(b, pos + 72, 28)),
                          Num(ReadU32LE(b, pos + 101)),
                          Num(ReadU32LE(b, pos + 105)),
                          Buf(Read(b, pos + 108, 32)),
                          Buf(Read(b, pos + 140 + lenSolution.size,
                                   lenSolution.value)))
        ELSE
          IF ~ReaderHas(b, pos + 72, 8) THEN NoInfo
          ELSE Info(Undef, version, prevHash, merkleRoot, Undef, Undef,
                    timeOrHeight, Num(ReadU32LE(b, pos + 73)),
                    Num(ReadU32LE(b, pos + 77)), Undef)

\* BlockHeader._from: a Buffer is decoded, an object is mapped, anything
\* else is a TypeError.
_from(arg) ==
  IF arg.t = "buf" THEN _fromBufferReader(arg.s, 0)
  ELSE IF arg.t = "obj" THEN _fromObject(arg)
  ELSE NoInfo

\* BlockHeader.prototype.toBufferWriter: the chunks written, in order.
toBufferWriter(this, lenient) ==
  <<WriteUInt32LE(this.version, lenient), Write(this.prevHash),
    Write(this.merkleRoot)>> \o
  (IF _isBitcoinQuark(this.height)
   THEN <<WriteUInt32LE(this.height, lenient), Write(this.reserved),
          WriteUInt32LE(this.time, lenient), WriteUInt32LE(this.bits, lenient),
          Write(this.nonce), WriteVarintNum(Length(this.solution)),
          Write(this.solution)>>
   ELSE <<WriteUInt32LE(this.time, lenient), WriteUInt32LE(this.bits, lenient),
          WriteUInt32LE(this.nonce, lenient)>>)

\* BlockHeader.prototype.toBuffer
toBuffer(this, lenient) == Concat(toBufferWriter(this, lenient))

\* BlockHeader.prototype._getHash
_getHash(this, lenient) ==
  LET buf == toBuffer(this, lenient)
  IN  IF Threw(buf) THEN Throw ELSE Buf(Sha256d(buf.s))

idGetRecompute(this, lenient) ==
  LET h == _getHash(this, lenient)
  IN  IF Threw(h) THEN Throw ELSE Str(ToHex(Reverse(h.s)))

\* idProperty.get: the value read; the cached _id when there is one.
idGet(this, lenient) ==
  IF ~Truthy(this._id)
  THEN LET h == _getHash(this, lenient)
       IN  IF Threw(h) THEN Throw ELSE Str(ToHex(Reverse(h.s)))
  ELSE this._id

\* The object after a read of id or hash: the value read is cached.
AfterIdGet(this, lenient) ==
  LET v == idGet(this, lenient)
  IN  IF Threw(v) THEN this ELSE [this EXCEPT !._id = v]

idSetAssigns(this, v) == [this EXCEPT !._id = v]

\* idProperty.set: _.noop.
idSet(this, v) == this

\* What a constructor call that throws leaves in place of the object.
NoHeader == [t |-> "throw"]

\* The fields the constructor copies from info; no id has been read yet.
NewHeader(info) ==
  [t |-> "obj", version |-> info.version, prevHash |-> info.prevHash,
   merkleRoot |-> info.merkleRoot, height |-> info.height,
   reserved |-> info.reserved, time |-> info.time, timestamp |-> info.time,
   bits |-> info.bits, nonce |-> info.nonce, solution |-> info.solution,
   _id |-> Undef]

BlockHeaderUnchecked(arg, lenient) ==
  LET info == _from(arg)
  IN  IF info.t = "throw" THEN NoHeader ELSE NewHeader(info)

\* The BlockHeader constructor: the new object, or NoHeader when _from or
\* the check of a supplied hash throws.
BlockHeader(arg, lenient) ==
  LET info == _from(arg)
  IN  IF info.t = "throw" THEN NoHeader
      ELSE LET this == NewHeader(info)
           IN  IF Truthy(info.hash)
               THEN IF idGet(this, lenient) = info.hash
                    THEN AfterIdGet(this, lenient)
                    ELSE NoHeader
               ELSE this

\* BlockHeader.fromObject
fromObject(obj, lenient) == BlockHeader(_fromObject(obj), lenient)

\* BlockHeader.fromBuffer
fromBuffer(buf, lenient) ==
  LET info == _fromBufferReader(buf.s, 0)
  IN  IF info.t = "throw" THEN NoHeader ELSE BlockHeader(info, lenient)

\* BlockHeader.fromRawBlock
fromRawBlock(data, lenient) ==
  LET info == _fromBufferReader(data.s, START_OF_HEADER)
  IN  IF info.t = "throw" THEN NoHeader ELSE BlockHeader(info, lenient)

\* BufferUtil.reverse(x).toString('hex'), for a Buffer x.
ReverseHex(v) == IF v.t = "buf" THEN Str(ToHex(Reverse(v.s))) ELSE Throw

\* x.toString('hex'), for a Buffer x.
PlainHex(v) == IF v.t = "buf" THEN Str(ToHex(v.s)) ELSE Throw

\* BlockHeader.prototype.toObject: the plain object, or NoHeader when the
\* read of hash or a conversion throws. Keys the object lacks read as Undef.
toObject(this, lenient) ==
  LET o ==
        IF _isBitcoinQuark(this.height)
        THEN [t |-> "obj", hash |-> idGet(this, lenient),
              version |-> this.version, prevHash |-> ReverseHex(this.prevHash),
              merkleRoot |-> ReverseHex(this.merkleRoot),
              height |-> this.height, reserved |-> ReverseHex(this.reserved),
              time |-> this.time, bits |-> this.bits,
              nonce |-> ReverseHex(this.nonce),
              solution |-> PlainHex(this.solution)]
        ELSE [t |-> "obj", hash |-> idGet(this, lenient),
              version |-> this.version, prevHash |-> ReverseHex(this.prevHash),
              merkleRoot |-> ReverseHex(this.merkleRoot),
              height |-> Undef, reserved |-> Undef,
              time |-> this.time, bits |-> this.bits,
              nonce |-> this.nonce, solution |-> Undef]
  IN  IF \E v \in {o.hash, o.prevHash, o.merkleRoot, o.reserved, o.nonce,
                   o.solution} : Threw(v)
      THEN NoHeader ELSE o

(***************************************************************************)
(* Target, difficulty and the validity checks                              *)
(***************************************************************************)
\* while (mov-- > 0) target = target.mul(new BN(2)): target doubled mov
\* times, and left as it is when mov is zero or negative.
Doubled(target, mov) == BNShl(target, mov)

\* BlockHeader.prototype.getTargetDifficulty; bits is Undef when the call
\* passes no argument.
getTargetDifficulty(this, bits) ==
  LET b == (IF Truthy(bits) THEN bits ELSE this.bits).n
  IN  Doubled(BNFromNat(b % 16777216), 8 * ((b \div 16777216) - 3))

\* str.slice(start) and str.slice(start, end) of JavaScript: a negative
\* index counts from the end, and every index is clamped to the string.
SliceIndex(len, i) ==
  IF i < 0 THEN (IF len + i < 0 THEN 0 ELSE len + i)
  ELSE IF i > len THEN len ELSE i

Slice(str, start, end) ==
  SubSeq(str, SliceIndex(Len(str), start) + 1, SliceIndex(Len(str), end))

SliceFrom(str, start) == SubSeq(str, SliceIndex(Len(str), start) + 1, Len(str))

\* A decimal string: the digits before and after its point.
Decimal(int, frac) == [int |-> int, frac |-> frac]

getDifficultyLegacyReference(this) ==
  LET difficulty1TargetBN ==
        BNMul(getTargetDifficulty(this, Num(GENESIS_BITS)), BNFromNat(10 ^ 8))
      currentTargetBN == getTargetDifficulty(this, Undef)
  IN  IF currentTargetBN = <<>> THEN Decimal(<<1>>, <<>>)
      ELSE LET difficultyString ==
                 BNToString10(BNDiv(difficulty1TargetBN, currentTargetBN))
               decimalPos == Len(difficultyString) - 8
           IN  Decimal(Slice(difficultyString, 0, decimalPos),
                       SliceFrom(difficultyString, decimalPos))

\* BlockHeader.prototype.getDifficulty: the decimal string handed to
\* parseFloat (the literal 1 when the current target is zero).
getDifficulty(this) ==
  LET genesisBits ==
        IF _isBitcoinQuark(this.height) THEN QUARK_GENESIS_BITS
        ELSE GENESIS_BITS
      difficulty1TargetBN ==
        BNMul(getTargetDifficulty(this, Num(genesisBits)), BNFromNat(10 ^ 8))
      currentTargetBN == getTargetDifficulty(this, Undef)
  IN  IF currentTargetBN = <<>> THEN Decimal(<<1>>, <<>>)
      ELSE LET difficultyString ==
                 BNToString10(BNDiv(difficulty1TargetBN, currentTargetBN))
               decimalPos == Len(difficultyString) - 8
           IN  Decimal(Slice(difficultyString, 0, decimalPos),
                       SliceFrom(difficultyString, decimalPos))

\* Math.round(new Date().getTime() / 1000) for the clock reading
\* clock.sec * 1000 + clock.ms milliseconds (0 <= ms < 1000).
CurrentTime(clock) == clock.sec + (IF clock.ms >= 500 THEN 1 ELSE 0)

validTimestampTruncating(this, clock) ==
  IF this.time.n > clock.sec + MAX_TIME_OFFSET THEN FALSE ELSE TRUE

\* BlockHeader.prototype.validTimestamp
validTimestamp(this, clock) ==
  IF this.time.n > CurrentTime(clock) + MAX_TIME_OFFSET THEN FALSE ELSE TRUE

validProofOfWorkStrict(this, id) ==
  IF BNCmp(BNFromHex(id.s), getTargetDifficulty(this, Undef)) >= 0
  THEN FALSE ELSE TRUE

\* BlockHeader.prototype.validProofOfWork, for the value id read from this.id
validProofOfWork(this, id) ==
  LET pow == BNFromHex(id.s)
      target == getTargetDifficulty(this, Undef)
  IN  IF BNCmp(pow, target) > 0 THEN FALSE ELSE TRUE

\* BlockHeader.Constants.LARGEST_HASH: 1 followed by 64 hex zeros.
LARGEST_HASH == BNFromHex(<<1>> \o [i \in 1..64 |-> 0])

(***************************************************************************)
(* Sample data                                                             *)
(***************************************************************************)
\* Solutions of 0..MaxShortSolution bytes, and one of LongSolution bytes
\* (long enough for the 3 byte form of the length prefix).
MaxShortSolution == 1

LongSolution == 253

\* The number of field assignments made to one header object.
MaxMuts == 1

\* The clock is read at ClockStart seconds and up to MaxTicks quarters of a
\* second later.
MaxTicks == 5

\* The detector is applied to the first MaxDetectSteps multiples of
\* DetectStep (a 50th of LOCKTIME_THRESHOLD), and to their neighbours.
MaxDetectSteps == 60

DetectStep == LOCKTIME_THRESHOLD \div 50

\* Field values of the samples: a clock reading, the time and nonce of the
\* Bitcoin genesis block, and a version with the top bits set.
Sample ==
  [clockStart |-> 1700000000, genesisTime |-> 1231006505,
   genesisNonce |-> 2083236893, quarkVersion |-> 536870912]

ClockStart == Sample.clockStart

GenesisTime == Sample.genesisTime

GenesisNonce == Sample.genesisNonce

PrevA == [i \in 1..32 |-> i]

PrevB == [i \in 1..32 |-> (7 * i + 3) % 256]

MerkleA == [i \in 1..32 |-> 255 - i]

ReservedA == [i \in 1..28 |-> 100 + i]

NonceA == [i \in 1..32 |-> 200 + i]

NonceB == [i \in 1..32 |-> (5 * i) % 256]

Solution(n) == [i \in 1..n |-> (3 * i) % 256]

SolutionLens == (0..MaxShortSolution) \cup {LongSolution}

\* An argument object of the legacy layout, its byte fields as Buffers.
LegacyObject(time, bits, nonce) ==
  [t |-> "obj", hash |-> Undef, version |-> Num(1), prevHash |-> Buf(PrevA),
   merkleRoot |-> Buf(MerkleA), height |-> Undef, reserved |-> Undef,
   time |-> Num(time), bits |-> Num(bits), nonce |-> Num(nonce),
   solution |-> Undef]

\* An argument object of the BitcoinQuark layout, its byte fields as Buffers.
QuarkObject(height, time, bits, len) ==
  [t |-> "obj", hash |-> Undef, version |-> Num(Sample.quarkVersion),
   prevHash |-> Buf(PrevB), merkleRoot |-> Buf(MerkleA),
   height |-> Num(height), reserved |-> Buf(ReservedA), time |-> Num(time),
   bits |-> Num(bits), nonce |-> Buf(NonceA), solution |-> Buf(Solution(len))]

LegacyTimes ==
  {0, 1, LOCKTIME_THRESHOLD, LOCKTIME_THRESHOLD + 1, GenesisTime}

QuarkHeights == {1, LOCKTIME_THRESHOLD - 1, LOCKTIME_THRESHOLD}

\* Compact targets: zero, the two genesis targets, two easier and one
\* harder than them, the one that decodes to LARGEST_HASH, and two with an
\* exponent below 3.
BitsSamples ==
  {0, GENESIS_BITS, QUARK_GENESIS_BITS, 520159231, 545259519, 453248203,
   553713664, 33587200, 16790614}

\* The header fields of an object, without its id cache and its hash key.
Fields(x) ==
  [version |-> x.version, prevHash |-> x.prevHash, merkleRoot |-> x.merkleRoot,
   height |-> x.height, reserved |-> x.reserved, time |-> x.time,
   bits |-> x.bits, nonce |-> x.nonce, solution |-> x.solution]

IsBytes(v, n) == v.t = "buf" /\ Len(v.s) = n

\* A record of the legacy layout: no height, the nonce a number.
LegacyRecord(h) ==
  /\ h.height = Undef
  /\ h.version.t = "num" /\ h.time.t = "num" /\ h.bits.t = "num"
  /\ h.nonce.t = "num"
  /\ IsBytes(h.prevHash, 32) /\ IsBytes(h.merkleRoot, 32)
  /\ h.reserved = Undef /\ h.solution = Undef

\* A record of the BitcoinQuark layout: a height the detector accepts,
\* 28 reserved bytes, a 32 byte nonce and a solution.
QuarkRecord(h) ==
  /\ h.height.t = "num" /\ _isBitcoinQuark(h.height)
  /\ h.version.t = "num" /\ h.time.t = "num" /\ h.bits.t = "num"
  /\ IsBytes(h.prevHash, 32) /\ IsBytes(h.merkleRoot, 32)
  /\ IsBytes(h.reserved, 28) /\ IsBytes(h.nonce, 32)
  /\ h.solution.t = "buf"

ValidRecord(h) == LegacyRecord(h) \/ QuarkRecord(h)

NoResult == [op |-> "none"]

(***************************************************************************)
(* Spec: the codec, applied to valid records of both layouts               *)
(***************************************************************************)
CodecArgs ==
  {LegacyObject(time, bits, nonce) :
     time \in LegacyTimes, bits \in {0, GENESIS_BITS},
     nonce \in {0, GenesisNonce}}
  \cup {QuarkObject(h, time, QUARK_GENESIS_BITS, len) :
          h \in QuarkHeights, time \in {0, ClockStart}, len \in SolutionLens}

Init ==
  /\ header \in {BlockHeader(arg, TRUE) : arg \in CodecArgs}
  /\ result = NoResult
  /\ now = [sec |-> ClockStart, ms |-> 0]
  /\ muts = 0

\* header.toBuffer() decoded again by _fromBufferReader.
DecodeEncoded ==
  /\ ValidRecord(header)
  /\ \E lenient \in BOOLEAN :
       LET buf == toBuffer(header, lenient)
       IN  /\ ~Threw(buf)
           /\ result' = [op |-> "decode", of |-> Fields(header),
                         info |-> _fromBufferReader(buf.s, 0)]
  /\ UNCHANGED <<header, now, muts>>

\* BlockHeader.fromRawBlock on the header's bytes after an 8 byte prefix.
DecodeRawBlock ==
  /\ ValidRecord(header)
  /\ \E lenient \in BOOLEAN :
       LET buf == toBuffer(header, lenient)
       IN  /\ ~Threw(buf)
           /\ result' =
                [op |-> "rawblock", of |-> Fields(header),
                 made |-> fromRawBlock(
                            Buf([i \in 1..START_OF_HEADER |-> 249] \o buf.s
                                \o <<1, 2, 3>>), lenient)]
  /\ UNCHANGED <<header, now, muts>>

\* BlockHeader.fromObject(header.toObject()); toObject reads header.hash.
ObjectRoundTrip ==
  /\ ValidRecord(header)
  /\ \E lenient \in BOOLEAN :
       LET obj == toObject(header, lenient)
       IN  /\ obj.t = "obj"
           /\ result' = [op |-> "fromObject", of |-> Fields(header),
                         back |-> fromObject(obj, lenient)]
           /\ header' = AfterIdGet(header, lenient)
  /\ UNCHANGED <<now, muts>>

Next ==
  \/ DecodeEncoded
  \/ DecodeRawBlock
  \/ ObjectRoundTrip

Spec == Init /\ [][Next]_vars

(***************************************************************************)
(* SpecDetect: the layout detector, applied to a grid of values            *)
(***************************************************************************)
DetectArgs ==
  {Undef}
  \cup {Num(k * DetectStep + d) : k \in 0..MaxDetectSteps, d \in {0, 1}}
  \cup {Num(k * DetectStep - 1) : k \in 1..MaxDetectSteps}
  \cup {Num(GenesisTime), Num(ClockStart)}

InitDetect ==
  /\ header = BlockHeader(LegacyObject(GenesisTime, GENESIS_BITS, 0), TRUE)
  /\ result = NoResult
  /\ now = [sec |-> ClockStart, ms |-> 0]
  /\ muts = 0

\* BlockHeader._isBitcoinQuark(arg)
Detect ==
  /\ \E arg \in DetectArgs :
       result' = [op |-> "detect", arg |-> arg, value |-> _isBitcoinQuark(arg)]
  /\ UNCHANGED <<header, now, muts>>

NextDetect == Detect

SpecDetect == InitDetect /\ [][NextDetect]_vars

(***************************************************************************)
(* SpecConstruct: the constructor, with and without a supplied hash        *)
(***************************************************************************)
ConstructBase ==
  {LegacyObject(time, GENESIS_BITS, GenesisNonce) : time \in LegacyTimes}
  \cup {QuarkObject(h, ClockStart, QUARK_GENESIS_BITS, len) :
          h \in QuarkHeights, len \in SolutionLens}

InitConstruct ==
  /\ header \in {BlockHeader(arg, TRUE) : arg \in ConstructBase}
  /\ result = NoResult
  /\ now = [sec |-> ClockStart, ms |-> 0]
  /\ muts = 0

\* The hashes a caller supplies: none, the empty string, the right one, and
\* two wrong ones (another 32 bytes in hex, the right one as a Buffer).
SuppliedHashes(right) ==
  {Undef, Str(<<>>), right, Str(ToHex(PrevA)), Buf(FromHex(right.s))}

\* The fields of an object as an argument object, byte fields as Buffers.
RawObject(this) ==
  [t |-> "obj", hash |-> Undef, version |-> this.version,
   prevHash |-> this.prevHash, merkleRoot |-> this.merkleRoot,
   height |-> this.height, reserved |-> this.reserved, time |-> this.time,
   bits |-> this.bits, nonce |-> this.nonce, solution |-> this.solution]

\* The arguments given to the constructor: the header's plain object and
\* its fields as they are, each with a supplied hash; its bytes; a number.
ConstructArgs(this, lenient) ==
  LET obj == toObject(this, lenient)
      buf == toBuffer(this, lenient)
  IN  UNION {
        IF obj.t = "obj"
        THEN {[o EXCEPT !.hash = h] :
                o \in {obj, RawObject(this)},
                h \in SuppliedHashes(idGetRecompute(this, lenient))}
        ELSE {},
        IF Threw(buf) THEN {} ELSE {buf},
        {Num(7)} }

\* new BlockHeader(arg); the object made is held in result, next to the
\* hash supplied and the hash computed afresh from the fields mapped.
Construct ==
  /\ \E lenient \in BOOLEAN :
       \E arg \in ConstructArgs(header, lenient) :
         LET info == _from(arg)
         IN  result' =
               [op |-> "construct",
                supplied |-> IF arg.t = "obj" THEN arg.hash ELSE Undef,
                computed |-> IF info.t = "throw" THEN Throw
                             ELSE idGetRecompute(NewHeader(info), lenient),
                made |-> BlockHeader(arg, lenient)]
  /\ UNCHANGED <<header, now, muts>>

NextConstruct == Construct

SpecConstruct == InitConstruct /\ [][NextConstruct]_vars

(***************************************************************************)
(* SpecId: one header object, its id read and assigned, its fields         *)
(* assigned at most MaxMuts times                                          *)
(***************************************************************************)
IdBase ==
  {LegacyObject(GenesisTime, GENESIS_BITS, GenesisNonce),
   LegacyObject(1, GENESIS_BITS, 0),
   QuarkObject(1, ClockStart, QUARK_GENESIS_BITS, 0),
   QuarkObject(LOCKTIME_THRESHOLD, ClockStart, QUARK_GENESIS_BITS, 1)}

InitId ==
  /\ header \in {BlockHeader(arg, TRUE) : arg \in IdBase}
  /\ result = NoResult
  /\ now = [sec |-> ClockStart, ms |-> 0]
  /\ muts = 0

\* A read of header.id or header.hash.
ReadId ==
  /\ \E lenient \in BOOLEAN :
       /\ result' = [op |-> "id", value |-> idGet(header, lenient),
                     before |-> header._id]
       /\ header' = AfterIdGet(header, lenient)
  /\ UNCHANGED <<now, muts>>

\* header.id = v or header.hash = v
AssignId ==
  /\ \E v \in {Str(ToHex(PrevA)), Str(ToHex(MerkleA))} :
       header' = idSet(header, v)
  /\ result' = [op |-> "assign"]
  /\ UNCHANGED <<now, muts>>

\* The values a field is assigned.
FieldValues ==
  [version |-> {Num(2)},
   prevHash |-> {Buf(PrevB), Buf(PrevA)},
   merkleRoot |-> {Buf(PrevB)},
   height |-> {Num(7), Num(LOCKTIME_THRESHOLD + 1)},
   time |-> {Num(GenesisTime + 600)},
   bits |-> {Num(520159231)},
   nonce |-> {Num(GenesisNonce + 1), Buf(NonceB)},
   solution |-> {Buf(Solution(2))}]

\* header[f] = v, for a value of the type the field holds.
MutateField ==
  /\ muts < MaxMuts
  /\ \E f \in DOMAIN FieldValues :
       \E v \in FieldValues[f] :
         /\ v # header[f]
         /\ header[f].t \in {v.t, "undef"}
         /\ header' = [header EXCEPT ![f] = v]
         /\ result' = [op |-> "set", field |-> f]
  /\ muts' = muts + 1
  /\ UNCHANGED now

NextId ==
  \/ ReadId
  \/ AssignId
  \/ MutateField

SpecId == InitId /\ [][NextId]_vars

(***************************************************************************)
(* SpecTarget: target, difficulty and proof of work over compact targets   *)
(***************************************************************************)
\* The nonces below 256 for which the legacy header's id is zero: what a
\* search for a nonce would find.
MinedNonces(time, bits) ==
  {n \in 0..255 :
     LET id == idGetRecompute(NewHeader(LegacyObject(time, bits, n)), TRUE)
     IN  \A i \in 1..Len(id.s) : id.s[i] = 0}

InitTarget ==
  /\ header \in
       {BlockHeader(arg, TRUE) :
          arg \in UNION {{LegacyObject(GenesisTime, bits, n) :
                            n \in {GenesisNonce}
                                  \cup MinedNonces(GenesisTime, bits)} :
                         bits \in BitsSamples}
                  \cup {QuarkObject(1, ClockStart, bits, 0) :
                          bits \in BitsSamples}}
  /\ result = NoResult
  /\ now = [sec |-> ClockStart, ms |-> 0]
  /\ muts = 0

\* header.getTargetDifficulty(arg), and header.getTargetDifficulty()
GetTargetDifficulty ==
  /\ \E arg \in {Undef, Num(0), Num(GENESIS_BITS), Num(33587200)} :
       result' = [op |-> "target", arg |-> arg, bits |-> header.bits,
                  value |-> getTargetDifficulty(header, arg)]
  /\ UNCHANGED <<header, now, muts>>

\* header.getDifficulty()
GetDifficulty ==
  /\ result' = [op |-> "difficulty", bits |-> header.bits,
                quark |-> _isBitcoinQuark(header.height),
                value |-> getDifficulty(header)]
  /\ UNCHANGED <<header, now, muts>>

\* header.validProofOfWork(); it reads header.id.
ValidProofOfWork ==
  /\ \E lenient \in BOOLEAN :
       LET id == idGet(header, lenient)
       IN  /\ ~Threw(id)
           /\ result' = [op |-> "pow", id |-> id, bits |-> header.bits,
                         value |-> validProofOfWork(header, id)]
           /\ header' = AfterIdGet(header, lenient)
  /\ UNCHANGED <<now, muts>>

NextTarget ==
  \/ GetTargetDifficulty
  \/ GetDifficulty
  \/ ValidProofOfWork

SpecTarget == InitTarget /\ [][NextTarget]_vars

(***************************************************************************)
(* SpecClock: the timestamp check as the clock advances                    *)
(***************************************************************************)
ClockTimes ==
  {GenesisTime, ClockStart, ClockStart + 1, ClockStart + MAX_TIME_OFFSET,
   ClockStart + MAX_TIME_OFFSET + 1, ClockStart + MAX_TIME_OFFSET + 2,
   ClockStart + MAX_TIME_OFFSET + 3}

InitClock ==
  /\ header \in
       {BlockHeader(arg, TRUE) :
          arg \in {LegacyObject(time, GENESIS_BITS, GenesisNonce) :
                     time \in ClockTimes}
                  \cup {QuarkObject(1, time, QUARK_GENESIS_BITS, 0) :
                          time \in ClockTimes}}
  /\ result = NoResult
  /\ now = [sec |-> ClockStart, ms |-> 0]
  /\ muts = 0

\* A quarter of a second passes.
Tick ==
  /\ (now.sec - ClockStart) * 4 + (now.ms \div 250) < MaxTicks
  /\ now' = IF now.ms = 750 THEN [sec |-> now.sec + 1, ms |-> 0]
            ELSE [sec |-> now.sec, ms |-> now.ms + 250]
  /\ UNCHANGED <<header, result, muts>>

\* header.validTimestamp()
ValidTimestamp ==
  /\ result' = [op |-> "timestamp", time |-> header.time, clock |-> now,
                value |-> validTimestamp(header, now)]
  /\ UNCHANGED <<header, now, muts>>

NextClock ==
  \/ Tick
  \/ ValidTimestamp

SpecClock == InitClock /\ [][NextClock]_vars

(***************************************************************************)
(* Properties                                                              *)
(***************************************************************************)
\* The target a compact value denotes: the mantissa (low 24 bits) times
\* 256^(exponent - 3) for an exponent (high 8 bits) above 3, and the
\* mantissa itself otherwise.
CompactTarget(bits) ==
  LET mantissa == bits % 16777216
      exponent == bits \div 16777216
  IN  IF exponent > 3 THEN BNShl(BNFromNat(mantissa), 8 * (exponent - 3))
      ELSE BNFromNat(mantissa)

\* The decoded record has the fields of the encoded one.
RoundTrips(r) == r.info.t = "obj" /\ Fields(r.info) = r.of

\* C1 as stated: decoding the bytes toBuffer produces for a valid record of
\* either layout, with any legacy time, yields the same fields.
C1_AnyRecordRoundTrips == result.op = "decode" => RoundTrips(result)

\* C1 amended: decoding the bytes toBuffer produces yields the same layout
\* and fields for every BitcoinQuark record and for every legacy record
\* whose time is 0 or greater than LOCKTIME_THRESHOLD.
C1_RoundTrip ==
  (/\ result.op = "decode"
   /\ LegacyRecord(result.of) =>
        (result.of.time.n = 0 \/ result.of.time.n > LOCKTIME_THRESHOLD))
  => RoundTrips(result)

C1_Witness ==
  /\ result.op = "decode"
  /\ QuarkRecord(result.of)
  /\ Len(result.of.solution.s) = LongSolution
  /\ RoundTrips(result)

\* C2: fromObject(header.toObject()) is a header whose prevHash, merkleRoot,
\* reserved, nonce and solution are those of the original record.
C2_FieldMappingRoundTrip ==
  result.op = "fromObject" =>
    /\ result.back.t = "obj"
    /\ result.back.prevHash = result.of.prevHash
    /\ result.back.merkleRoot = result.of.merkleRoot
    /\ result.back.reserved = result.of.reserved
    /\ result.back.nonce = result.of.nonce
    /\ result.back.solution = result.of.solution

\* C3 as stated: the detector answers true exactly for the values strictly
\* between 0 and LOCKTIME_THRESHOLD.
C3_BoundaryAsStated ==
  (result.op = "detect" /\ result.arg.t = "num") =>
    (result.value <=> (0 < result.arg.n /\ result.arg.n < LOCKTIME_THRESHOLD))

\* C3 amended: the detector answers true exactly for the values above 0 up
\* to and including LOCKTIME_THRESHOLD, and false for no value at all.
C3_Boundary ==
  result.op = "detect" =>
    (result.value <=>
       (/\ result.arg.t = "num"
        /\ 0 < result.arg.n
        /\ result.arg.n <= LOCKTIME_THRESHOLD))

C3_Witness ==
  /\ result.op = "detect"
  /\ result.arg = Num(LOCKTIME_THRESHOLD)
  /\ result.value

\* C4: when the argument carries a hash, the constructor returns a header
\* exactly when that hash equals the one computed from the mapped fields.
C4_SuppliedHash ==
  (result.op = "construct" /\ Truthy(result.supplied)) =>
    (result.made.t = "obj" <=> result.supplied = result.computed)

C4_Witness ==
  /\ result.op = "construct"
  /\ result.supplied.t = "str"
  /\ Truthy(result.supplied)
  /\ result.computed.t = "str"
  /\ result.supplied # result.computed
  /\ result.made.t = "throw"

\* C5: once a header holds an id, no step changes it, whatever is assigned
\* to the fields or to id, and every read returns it.
C5_IdMemoized ==
  [][Truthy(header._id) =>
       /\ header'._id = header._id
       /\ (result'.op = "id" => result'.value = header._id)]_vars

C5_Witness ==
  /\ result.op = "id"
  /\ Truthy(result.before)
  /\ muts > 0
  /\ result.value # idGetRecompute(header, TRUE)

\* C6: validProofOfWork answers true exactly when the id read, as a
\* big-endian number, is at most the target of the header's bits; so it
\* answers true whenever that target is LARGEST_HASH.
C6_ProofOfWork ==
  result.op = "pow" =>
    LET pow == BNFromHex(result.id.s)
        target == CompactTarget(result.bits.n)
    IN  /\ result.value <=> BNCmp(pow, target) <= 0
        /\ target = LARGEST_HASH => result.value

C6_Witness ==
  /\ result.op = "pow"
  /\ CompactTarget(result.bits.n) = LARGEST_HASH
  /\ BNFromHex(result.id.s) # <<>>
  /\ result.value

\* C7 as stated: validTimestamp answers true exactly when the time is at
\* most the whole seconds of the clock plus MAX_TIME_OFFSET.
C7_WholeSeconds ==
  result.op = "timestamp" =>
    (result.value <=>
       result.time.n <= result.clock.sec + MAX_TIME_OFFSET)

\* C7 amended: validTimestamp answers true exactly when the time is at most
\* the clock rounded to the nearest second (a half rounds up) plus 7200.
C7_RoundedSeconds ==
  result.op = "timestamp" =>
    (result.value <=>
       result.time.n <=
         result.clock.sec + (IF result.clock.ms >= 500 THEN 1 ELSE 0) + 7200)

C7_Witness ==
  /\ result.op = "timestamp"
  /\ result.clock.ms >= 500
  /\ result.time.n = result.clock.sec + MAX_TIME_OFFSET + 1
  /\ result.value

\* The decimal string denotes 1.
IsOne(d) ==
  /\ StripZeros(d.int) = <<1>>
  /\ \A i \in 1..Len(d.frac) : d.frac[i] = 0

\* C8: getDifficulty gives 1 for a legacy header whose bits are GENESIS_BITS
\* and for a BitcoinQuark header whose bits are QUARK_GENESIS_BITS.
C8_GenesisDifficulty ==
  (/\ result.op = "difficulty"
   /\ result.bits.n =
        (IF result.quark THEN QUARK_GENESIS_BITS ELSE GENESIS_BITS))
  => IsOne(result.value)

C8_Witness ==
  /\ result.op = "difficulty"
  /\ result.quark
  /\ result.bits.n = QUARK_GENESIS_BITS
  /\ IsOne(result.value)

\* C9: getTargetDifficulty(bits) is the target its argument denotes, for
\* every argument, 0 included.
C9_ArgumentDecides ==
  (result.op = "target" /\ result.arg.t = "num") =>
    result.value = CompactTarget(result.arg.n)

\* The decimal digits d followed by k zeros, without leading zeros: the
\* digits of the number of d times 10^k.
Scaled(d, k) == StripZeros(d \o [i \in 1..k |-> 0])

\* The decimal string dec denotes the number of the digits n over 10^k.
Denotes(dec, n, k) ==
  Scaled(dec.int \o dec.frac, k) = Scaled(n, Len(dec.frac))

\* C10: the string getDifficulty parses denotes ratio / 10^8 for the ratio
\* of the layout's genesis target times 10^8 to a non-zero current target,
\* and 1 when the current target is zero.
C10_DecimalPlacement ==
  result.op = "difficulty" =>
    LET current == CompactTarget(result.bits.n)
        genesis == CompactTarget(IF result.quark THEN QUARK_GENESIS_BITS
                                 ELSE GENESIS_BITS)
    IN  IF current = <<>> THEN IsOne(result.value)
        ELSE Denotes(result.value,
                     BNToString10(BNDiv(BNMul(genesis, BNFromNat(10 ^ 8)),
                                        current)), 8)

====
